---- MODULE Spec2Model ----
(***************************************************************************)
(* co2-cluster-analysis: the cleaning pipeline (src/src/utils.rs), the     *)
(* cosine similarity (src/src/similarity.rs) and the similarity graph with *)
(* its degree ranking and union-find clustering (src/src/graph.rs), run in *)
(* the order of main (src/src/main.rs).                                    *)
(*                                                                         *)
(* Numbers.  An f64 is modelled as an exact rational <<n, d>> in lowest    *)
(* terms with d > 0; <<0, 0>> is NaN (the code's 0.0 / 0.0 and f64::NAN).  *)
(* Rounding, overflow and infinities are outside the model.  The cosine    *)
(* similarity dot / (sqrt(na) * sqrt(nb)) is irrational in general, so a   *)
(* similarity s is carried as its signed square sgn(s) * s^2, which is     *)
(* rational; x |-> sgn(x) * x^2 is strictly increasing, so comparing two   *)
(* signed squares is comparing the two numbers.                            *)
(***************************************************************************)
EXTENDS Integers, Sequences, FiniteSets, TLC

VARIABLES
    pc,           \* position in main / in the function under analysis
    raw_data,     \* country -> sequence of <<year, value>> (load_data's result)
    threshold,    \* the similarity threshold handed to build_similarity_graph
    all_years,    \* clean_data: the sorted vector of all years
    aligned,      \* clean_data: country -> co2_vector right after alignment
    smoothed,     \* clean_data: country -> co2_vector right after smooth
    processed,    \* clean_data: country -> CountryData.values
    order,        \* iteration order of the HashMap `data` in build_similarity_graph
    nodes,        \* graph: node weights (country names) by node index
    edges,        \* graph: edges in insertion order, [source, target, weight]
    bi, bj,       \* build_similarity_graph: positions of the two nested loops
    sim_calls,    \* the calls of cosine_similarity made so far, <<name1, name2>>
    stats,        \* what print_graph_stats reported
    centrality,   \* the sorted vector of print_degree_centrality
    printed,      \* what print_clusters grouped and printed
    report,       \* what save_clusters_to_file grouped and wrote
    values,       \* smooth: the vector handed in (mutated in place)
    window,       \* smooth: the half-window
    prev_values   \* smooth: the vector as it was before the call

vars == <<pc, raw_data, threshold, all_years, aligned, smoothed, processed,
          order, nodes, edges, bi, bj, sim_calls, stats, centrality, printed,
          report, values, window, prev_values>>

-----------------------------------------------------------------------------
(* Bounds of the model *)

\* longest vector handed to smooth on its own
MaxLen == 4
\* largest half-window handed to smooth on its own (i + window + 1 stays far
\* below the width of usize)
MaxWindow == 3
\* most edges of a graph handed directly to the analyses
MaxEdges == 2

-----------------------------------------------------------------------------
(* f64 as exact rationals *)

Abs(n) == IF n < 0 THEN -n ELSE n

Min(a, b) == IF a < b THEN a ELSE b

RECURSIVE GCD(_, _)
GCD(a, b) == IF b = 0 THEN a ELSE GCD(b, a % b)

NaN == <<0, 0>>

is_nan(v) == v[2] = 0

\* n / d in lowest terms with a positive denominator; anything over 0 is NaN
Rat(n, d) ==
    IF d = 0 THEN NaN
    ELSE LET g == GCD(Abs(n), Abs(d))
             s == IF d < 0 THEN -1 ELSE 1
         IN  <<(s * n) \div g, (s * d) \div g>>

F(n) == <<n, 1>>

\* the products are taken after cancelling common factors
FAdd(a, b) ==
    IF is_nan(a) \/ is_nan(b) THEN NaN
    ELSE LET g == GCD(a[2], b[2])
         IN  Rat(a[1] * (b[2] \div g) + b[1] * (a[2] \div g), (a[2] \div g) * b[2])

FMul(a, b) ==
    IF is_nan(a) \/ is_nan(b) THEN NaN
    ELSE LET g1 == GCD(Abs(a[1]), b[2])
             g2 == GCD(Abs(b[1]), a[2])
         IN  Rat((a[1] \div g1) * (b[1] \div g2), (a[2] \div g2) * (b[2] \div g1))

\* a / b; a division by zero has no rational value and is carried as NaN
FDiv(a, b) ==
    IF is_nan(b) \/ b[1] = 0 THEN NaN
    ELSE FMul(a, IF b[1] < 0 THEN <<-b[2], -b[1]>> ELSE <<b[2], b[1]>>)

\* a < b, a > b, a == b of f64: every comparison with NaN is false
FLt(a, b) ==
    /\ ~is_nan(a)
    /\ ~is_nan(b)
    /\ LET g == GCD(a[2], b[2])
       IN  a[1] * (b[2] \div g) < b[1] * (a[2] \div g)

FGt(a, b) == FLt(b, a)

FEq(a, b) == ~is_nan(a) /\ ~is_nan(b) /\ a = b

FLe(a, b) == FLt(a, b) \/ FEq(a, b)

\* f64::max: the other operand when one is NaN
f64_max(a, b) ==
    IF is_nan(a) THEN b
    ELSE IF is_nan(b) THEN a
    ELSE IF FLt(a, b) THEN b ELSE a

\* iter().sum() over the 1-based positions lo..hi of v, left to right from 0.0
RECURSIVE SumRange(_, _, _)
SumRange(v, lo, hi) ==
    IF hi < lo THEN F(0) ELSE FAdd(SumRange(v, lo, hi - 1), v[hi])

SeqsUpTo(S, n) == UNION {[1..k -> S] : k \in 0..n}

-----------------------------------------------------------------------------
(* utils.rs: smooth *)

saturating_sub(a, b) == IF a < b THEN 0 ELSE a - b

\* the cascading variant: position i is overwritten in place, so later
\* windows read the already smoothed values to their left
RECURSIVE smooth_in_place(_, _, _)
smooth_in_place(vals, win, i) ==
    IF i >= Len(vals) THEN vals
    ELSE LET start == saturating_sub(i, win)
             end == Min(i + win + 1, Len(vals))
             sum == SumRange(vals, start + 1, end)
         IN  smooth_in_place([vals EXCEPT ![i + 1] = FDiv(sum, F(end - start))],
                             win, i + 1)

smooth_cascading(vals, win) == smooth_in_place(vals, win, 0)

\* smooth(values, window): i, start and end are the 0-based indices of the
\* code; values[start..end] is the 1-based range start+1..end
smooth(vals, win) ==
    [k \in 1..Len(vals) |->
        LET i == k - 1
            start == saturating_sub(i, win)
            end == Min(i + win + 1, Len(vals))
            sum == SumRange(vals, start + 1, end)
        IN  FDiv(sum, F(end - start))]

-----------------------------------------------------------------------------
(* String order of the country names: name1 < name2 in build_similarity_graph *)

NameOrder == <<"A", "B", "C", "D", "E", "X", "Y", "Z">>

NamePos(n) == CHOOSE i \in 1..Len(NameOrder) : NameOrder[i] = n

name_lt(a, b) == NamePos(a) < NamePos(b)

\* the name field of a report line that names no country
NoName == "-"

-----------------------------------------------------------------------------
(* similarity.rs: cosine_similarity *)

\* dot, norm_a and norm_b after the first n zipped pairs
RECURSIVE zip_sums(_, _, _)
zip_sums(a, b, n) ==
    IF n = 0 THEN [dot |-> F(0), norm_a |-> F(0), norm_b |-> F(0)]
    ELSE LET acc == zip_sums(a, b, n - 1)
         IN  [dot    |-> FAdd(acc.dot, FMul(a[n], b[n])),
              norm_a |-> FAdd(acc.norm_a, FMul(a[n], a[n])),
              norm_b |-> FAdd(acc.norm_b, FMul(b[n], b[n]))]

\* sgn(x) * x^2
signed_square(x) == IF x[1] < 0 THEN FMul(F(-1), FMul(x, x)) ELSE FMul(x, x)

\* the similarity of two value vectors, as a signed square:
\* dot / (sqrt(norm_a) * sqrt(norm_b)) has the signed square
\* sgn(dot) * dot^2 / (norm_a * norm_b)
cosine_similarity(a, b) ==
    LET acc == zip_sums(a, b, Min(Len(a), Len(b)))
    IN  IF FEq(acc.norm_a, F(0)) \/ FEq(acc.norm_b, F(0))
        THEN F(0)
        ELSE FDiv(signed_square(acc.dot), FMul(acc.norm_a, acc.norm_b))

\* sim >= threshold: the slip that lets a similarity equal to t make an edge
exceeds_or_equals(sim, t) == ~FLt(sim, signed_square(t))

\* sim > threshold, sim a signed square and t a plain number
exceeds(sim, t) == FGt(sim, signed_square(t))

-----------------------------------------------------------------------------
(* utils.rs: clean_data *)

\* the ascending sequence of a finite set of integers (Vec::sort)
RECURSIVE sorted_vec(_)
sorted_vec(S) ==
    IF S = {} THEN <<>>
    ELSE LET m == CHOOSE x \in S : \A y \in S : x <= y
         IN  <<m>> \o sorted_vec(S \ {m})

years_of(samples) == {samples[k][1] : k \in 1..Len(samples)}

\* lines 28-35: the set of all years, collected and sorted
collect_years(raw) == sorted_vec(UNION {years_of(raw[c]) : c \in DOMAIN raw})

\* line 39: values.into_iter().collect() into a HashMap: a later sample of a
\* year replaces an earlier one
year_to_value(samples) ==
    [y \in years_of(samples) |->
        LET last == CHOOSE k \in 1..Len(samples) :
                        /\ samples[k][1] = y
                        /\ \A j \in 1..Len(samples) : samples[j][1] = y => j <= k
        IN  samples[last][2]]

\* lines 40-47 with the sample's position in place of its year
align_by_position(samples, years) ==
    [i \in 1..Len(years) |-> IF i <= Len(samples) THEN samples[i][2] ELSE NaN]

\* lines 40-47: one slot per year of all_years, NaN where the country has none
align(samples, years) ==
    LET ytv == year_to_value(samples)
    IN  [i \in 1..Len(years) |->
            IF years[i] \in DOMAIN ytv THEN ytv[years[i]] ELSE NaN]

RECURSIVE sum_present(_, _)
sum_present(v, n) ==
    IF n = 0 THEN F(0)
    ELSE IF is_nan(v[n]) THEN sum_present(v, n - 1)
    ELSE FAdd(sum_present(v, n - 1), v[n])

count_present(v) == Cardinality({k \in 1..Len(v) : ~is_nan(v[k])})

\* lines 50-56: NaN slots take the mean of the present values
fill_missing(v) ==
    LET n == count_present(v)
        avg == FDiv(sum_present(v, Len(v)), F(IF n < 1 THEN 1 ELSE n))
    IN  [k \in 1..Len(v) |-> IF is_nan(v[k]) THEN avg ELSE v[k]]

\* line 62: fold(0.0 / 0.0, f64::max)
RECURSIVE fold_max(_, _)
fold_max(v, n) == IF n = 0 THEN NaN ELSE f64_max(fold_max(v, n - 1), v[n])

\* the normalisation dividing by the first value instead of the maximum
normalize_by_first(v) ==
    IF Len(v) > 0 /\ FGt(v[1], F(0))
    THEN [k \in 1..Len(v) |-> FDiv(v[k], v[1])]
    ELSE v

\* lines 61-67: divide by the maximum when it is positive
normalize(v) ==
    LET max == fold_max(v, Len(v))
    IN  IF FGt(max, F(0)) THEN [k \in 1..Len(v) |-> FDiv(v[k], max)] ELSE v

\* the smoothing step left out of clean_data
no_smoothing(v) == v

\* line 59: smooth(&mut co2_vector, 1)
smooth_series(v) == smooth(v, 1)

-----------------------------------------------------------------------------
(* petgraph::unionfind::UnionFind as graph.rs uses it; elements are the     *)
(* 1-based node positions                                                   *)

\* UnionFind::new(n): every element its own parent, rank 0
uf_new(n) == [parent |-> [k \in 1..n |-> k], rank |-> [k \in 1..n |-> 0]]

\* find: follow the parents up to the representative
RECURSIVE uf_find(_, _)
uf_find(uf, x) == IF uf.parent[x] = x THEN x ELSE uf_find(uf, uf.parent[x])

\* find_mut: the same, halving the path on the way up
RECURSIVE uf_find_mut(_, _)
uf_find_mut(uf, x) ==
    LET parent == uf.parent[x]
    IN  IF parent = x THEN [uf |-> uf, rep |-> x]
        ELSE LET grandparent == uf.parent[parent]
             IN  uf_find_mut([uf EXCEPT !.parent[x] = grandparent], parent)

\* a union that forgets to link when the two ranks are equal
uf_union_skip_equal(uf, x, y) ==
    IF x = y THEN uf
    ELSE LET fx == uf_find_mut(uf, x)
             fy == uf_find_mut(fx.uf, y)
             u == fy.uf
         IN  IF fx.rep = fy.rep THEN u
             ELSE IF u.rank[fx.rep] < u.rank[fy.rep]
                  THEN [u EXCEPT !.parent[fx.rep] = fy.rep]
             ELSE IF u.rank[fx.rep] > u.rank[fy.rep]
                  THEN [u EXCEPT !.parent[fy.rep] = fx.rep]
             ELSE u

\* union(x, y): link the representative of lower rank under the other
uf_union(uf, x, y) ==
    IF x = y THEN uf
    ELSE LET fx == uf_find_mut(uf, x)
             fy == uf_find_mut(fx.uf, y)
             u == fy.uf
         IN  IF fx.rep = fy.rep THEN u
             ELSE IF u.rank[fx.rep] < u.rank[fy.rep]
                  THEN [u EXCEPT !.parent[fx.rep] = fy.rep]
             ELSE IF u.rank[fx.rep] > u.rank[fy.rep]
                  THEN [u EXCEPT !.parent[fy.rep] = fx.rep]
             ELSE [u EXCEPT !.parent[fy.rep] = fx.rep,
                            !.rank[fx.rep] = u.rank[fx.rep] + 1]

\* for edge in graph.edge_references() { uf.union(source, target) }
RECURSIVE union_edges(_, _, _)
union_edges(uf, es, n) ==
    IF n = 0 THEN uf
    ELSE uf_union(union_edges(uf, es, n - 1), es[n].source, es[n].target)

-----------------------------------------------------------------------------
(* graph.rs: the analyses of a built graph *)

\* the component count taken for nodes minus edges
connected_components_by_edge_count(ns, es) ==
    IF Len(es) > Len(ns) THEN 0 ELSE Len(ns) - Len(es)

\* petgraph::algo::connected_components: union the endpoints of every edge,
\* count the distinct labels
connected_components(ns, es) ==
    LET uf == union_edges(uf_new(Len(ns)), es, Len(es))
    IN  Cardinality({uf_find(uf, k) : k \in 1..Len(ns)})

\* the edges at node i whichever end it is
incident_edge_count(es, i) ==
    Cardinality({k \in 1..Len(es) : es[k].source = i \/ es[k].target = i})

\* graph.edges(node).count() of a directed Graph: the edges leaving node i
edges_count(es, i) == Cardinality({k \in 1..Len(es) : es[k].source = i})

\* a stable ascending sort by key: the positions of keys in sorted order
stable_sort_positions(keys) ==
    LET before(j, k) == keys[j] < keys[k] \/ (keys[j] = keys[k] /\ j < k)
        place(k) == 1 + Cardinality({j \in 1..Len(keys) : before(j, k)})
    IN  [i \in 1..Len(keys) |-> CHOOSE k \in 1..Len(keys) : place(k) = i]

\* lines 54-62: (name, degree) per node in index order, sorted by degree
\* descending (b.1.cmp(&a.1))
degree_centrality(ns, es) ==
    LET unsorted == [i \in 1..Len(ns) |->
                        [name |-> ns[i], degree |-> edges_count(es, i)]]
        p == stable_sort_positions([i \in 1..Len(ns) |-> -unsorted[i].degree])
    IN  [i \in 1..Len(ns) |-> unsorted[p[i]]]

\* the names of the nodes in index order whose representative is root
RECURSIVE members_of(_, _, _, _)
members_of(ns, uf, root, n) ==
    IF n = 0 THEN <<>>
    ELSE LET rest == members_of(ns, uf, root, n - 1)
         IN  IF uf_find(uf, n) = root THEN Append(rest, ns[n]) ELSE rest

\* lines 71-85 and 102-115: union every edge, then group the node names by
\* the root of their node
group_clusters(ns, es) ==
    LET uf == union_edges(uf_new(Len(ns)), es, Len(es))
        roots == {uf_find(uf, k) : k \in 1..Len(ns)}
    IN  [r \in roots |-> members_of(ns, uf, r, Len(ns))]

\* the sort key with the sign dropped: ascending size
sort_key_ascending(v) == Len(v)

\* sort_by_key(|v| -(v.len() as isize))
sort_key(v) == -Len(v)

\* the orders a HashMap with the keys S can be iterated in
RECURSIVE Perms(_)
Perms(S) ==
    IF S = {} THEN {<<>>}
    ELSE UNION {{<<x>> \o p : p \in Perms(S \ {x})} : x \in S}

\* clusters.values().collect() in the iteration order `iter` of the HashMap,
\* then the stable sort by key
cluster_list(clusters, iter) ==
    LET vals == [i \in 1..Len(iter) |-> clusters[iter[i]]]
        p == stable_sort_positions([i \in 1..Len(vals) |-> sort_key(vals[i])])
    IN  [i \in 1..Len(vals) |-> vals[p[i]]]

\* the members shown per cluster by print_clusters
ShownMembers == 5

prefix(v, n) == [k \in 1..Min(Len(v), n) |-> v[k]]

\* lines 91-93: one printed line per cluster
printed_lines(list) ==
    [i \in 1..Len(list) |->
        [rank |-> i, count |-> Len(list[i]), shown |-> prefix(list[i], ShownMembers)]]

header_line(i, n) == [kind |-> "header", rank |-> i, count |-> n, name |-> NoName]

member_line(c) == [kind |-> "member", rank |-> 0, count |-> 0, name |-> c]

blank_line == [kind |-> "blank", rank |-> 0, count |-> 0, name |-> NoName]

\* lines 123-131: header, one line per member, blank line, per cluster
RECURSIVE report_lines(_, _)
report_lines(list, n) ==
    IF n = 0 THEN <<>>
    ELSE report_lines(list, n - 1)
         \o <<header_line(n, Len(list[n]))>>
         \o [k \in 1..Len(list[n]) |-> member_line(list[n][k])]
         \o <<blank_line>>

-----------------------------------------------------------------------------
(* Inputs *)

Countries == {"X", "Y", "Z"}

\* the series a country can come with: sorted by year, as load_data leaves them
SeriesPool ==
    { <<>>,
      << <<2000, F(10)>>, <<2001, F(20)>>, <<2002, F(30)>> >>,
      << <<2000, F(5)>>, <<2001, F(5)>>, <<2002, F(5)>> >>,
      << <<2003, F(20)>> >>,
      << <<2000, F(-5)>>, <<2002, F(-5)>> >>,
      << <<2001, F(-2)>>, <<2002, F(6)>> >> }

RawDatasets == UNION {[S -> SeriesPool] : S \in SUBSET Countries}

\* main's 0.975 among the thresholds build_similarity_graph is handed
MainThreshold == Rat(39, 40)

Thresholds == {F(-1), F(0), MainThreshold, F(1)}

\* the vectors smooth is handed on its own
SmoothValues == {F(-3), F(0), F(1), F(6)}

\* the graphs the analyses are handed directly
GraphNames == <<"A", "B", "C", "D", "E">>

GraphEdges(n) ==
    {e \in [source : 1..n, target : 1..n, weight : {F(1)}] : e.source # e.target}

Empty == <<>>

NoStats == [nodes |-> 0, edges |-> 0, components |-> 0]

NoCentrality == [ranking |-> <<>>, top |-> <<>>]

NoClusters == [clusters |-> <<>>, list |-> <<>>, lines |-> <<>>]

-----------------------------------------------------------------------------
(* main: clean_data, build_similarity_graph, the analyses *)

Init ==
    /\ pc = "clean_data"
    /\ raw_data \in RawDatasets
    /\ threshold \in Thresholds
    /\ all_years = Empty /\ aligned = Empty /\ smoothed = Empty
    /\ processed = Empty
    /\ order = Empty /\ nodes = Empty /\ edges = Empty
    /\ bi = 0 /\ bj = 0 /\ sim_calls = Empty
    /\ stats = NoStats /\ centrality = NoCentrality
    /\ printed = NoClusters /\ report = NoClusters
    /\ values = Empty /\ window = 0 /\ prev_values = Empty

\* clean_data, lines 28-35
CollectYears ==
    /\ pc = "clean_data"
    /\ all_years' = collect_years(raw_data)
    /\ pc' = "clean_loop"
    /\ UNCHANGED <<raw_data, threshold, aligned, smoothed, processed, order,
                   nodes, edges, bi, bj, sim_calls, stats, centrality, printed,
                   report, values, window, prev_values>>

\* clean_data, lines 38-75: one turn of the loop over raw_data
CleanCountry(country) ==
    /\ pc = "clean_loop"
    /\ country \in DOMAIN raw_data \ DOMAIN processed
    /\ LET co2_vector == align(raw_data[country], all_years)
           after_smooth == smooth_series(fill_missing(co2_vector))
       IN  /\ aligned' = (country :> co2_vector) @@ aligned
           /\ smoothed' = (country :> after_smooth) @@ smoothed
           /\ processed' = (country :> normalize(after_smooth)) @@ processed
    /\ UNCHANGED <<pc, raw_data, threshold, all_years, order, nodes, edges, bi,
                   bj, sim_calls, stats, centrality, printed, report, values,
                   window, prev_values>>

\* clean_data, line 77, and main, lines 14-19
ReturnProcessed ==
    /\ pc = "clean_loop"
    /\ DOMAIN processed = DOMAIN raw_data
    /\ pc' = "build_nodes"
    /\ UNCHANGED <<raw_data, threshold, all_years, aligned, smoothed, processed,
                   order, nodes, edges, bi, bj, sim_calls, stats, centrality,
                   printed, report, values, window, prev_values>>

\* build_similarity_graph, lines 20-27: a node per key, in the map's order
AddNodes ==
    /\ pc = "build_nodes"
    /\ \E iter \in Perms(DOMAIN processed) :
          /\ order' = iter
          /\ nodes' = iter
    /\ edges' = Empty
    /\ bi' = 1 /\ bj' = 1
    /\ pc' = "build_edges"
    /\ UNCHANGED <<raw_data, threshold, all_years, aligned, smoothed, processed,
                   sim_calls, stats, centrality, printed, report, values, window,
                   prev_values>>

\* the index HashMap `nodes` of build_similarity_graph: name -> node position
node_index(name) == CHOOSE k \in 1..Len(nodes) : nodes[k] = name

\* the pair guard that only leaves out a country paired with itself
pair_guard_distinct(name1, name2) == name1 # name2

\* line 32: if name1 < name2
pair_guard(name1, name2) == name_lt(name1, name2)

\* build_similarity_graph, lines 30-38: one turn of the inner loop
ComparePair ==
    /\ pc = "build_edges"
    /\ bi <= Len(order)
    /\ LET name1 == order[bi]
           name2 == order[bj]
           sim == cosine_similarity(processed[name1], processed[name2])
       IN  IF pair_guard(name1, name2)
           THEN /\ sim_calls' = Append(sim_calls, <<name1, name2>>)
                /\ edges' = IF exceeds(sim, threshold)
                            THEN Append(edges, [source |-> node_index(name1),
                                                target |-> node_index(name2),
                                                weight |-> sim])
                            ELSE edges
           ELSE UNCHANGED <<sim_calls, edges>>
    /\ IF bj < Len(order)
       THEN bj' = bj + 1 /\ bi' = bi
       ELSE bj' = 1 /\ bi' = bi + 1
    /\ UNCHANGED <<pc, raw_data, threshold, all_years, aligned, smoothed,
                   processed, order, nodes, stats, centrality, printed, report,
                   values, window, prev_values>>

\* build_similarity_graph, line 41, and main, lines 19-22
ReturnGraph ==
    /\ pc = "build_edges"
    /\ bi > Len(order)
    /\ pc' = "print_graph_stats"
    /\ UNCHANGED <<raw_data, threshold, all_years, aligned, smoothed, processed,
                   order, nodes, edges, bi, bj, sim_calls, stats, centrality,
                   printed, report, values, window, prev_values>>

\* print_graph_stats, lines 45-49
PrintGraphStats ==
    /\ pc = "print_graph_stats"
    /\ stats' = [nodes |-> Len(nodes), edges |-> Len(edges),
                 components |-> connected_components(nodes, edges)]
    /\ pc' = "print_degree_centrality"
    /\ UNCHANGED <<raw_data, threshold, all_years, aligned, smoothed, processed,
                   order, nodes, edges, bi, bj, sim_calls, centrality, printed,
                   report, values, window, prev_values>>

\* the countries print_degree_centrality lists
TopCountries == 10

\* print_degree_centrality, lines 52-67
PrintDegreeCentrality ==
    /\ pc = "print_degree_centrality"
    /\ LET ranking == degree_centrality(nodes, edges)
       IN  centrality' = [ranking |-> ranking, top |-> prefix(ranking, TopCountries)]
    /\ pc' = "print_clusters"
    /\ UNCHANGED <<raw_data, threshold, all_years, aligned, smoothed, processed,
                   order, nodes, edges, bi, bj, sim_calls, stats, printed, report,
                   values, window, prev_values>>

\* print_clusters, lines 70-94; iter is the order clusters.values() comes in
PrintClusters ==
    /\ pc = "print_clusters"
    /\ \E clusters \in {group_clusters(nodes, edges)} :
          \E iter \in Perms(DOMAIN clusters) :
              LET list == cluster_list(clusters, iter)
              IN  printed' = [clusters |-> clusters, list |-> list,
                              lines |-> printed_lines(list)]
    /\ pc' = "save_clusters_to_file"
    /\ UNCHANGED <<raw_data, threshold, all_years, aligned, smoothed, processed,
                   order, nodes, edges, bi, bj, sim_calls, stats, centrality,
                   report, values, window, prev_values>>

\* save_clusters_to_file, lines 101-135; iter is the order clusters.values()
\* comes in, its own and not that of print_clusters
SaveClustersToFile ==
    /\ pc = "save_clusters_to_file"
    /\ \E clusters \in {group_clusters(nodes, edges)} :
          \E iter \in Perms(DOMAIN clusters) :
              LET list == cluster_list(clusters, iter)
              IN  report' = [clusters |-> clusters, list |-> list,
                             lines |-> report_lines(list, Len(list))]
    /\ pc' = "done"
    /\ UNCHANGED <<raw_data, threshold, all_years, aligned, smoothed, processed,
                   order, nodes, edges, bi, bj, sim_calls, stats, centrality,
                   printed, values, window, prev_values>>

Next ==
    \/ CollectYears
    \/ \E country \in Countries : CleanCountry(country)
    \/ ReturnProcessed
    \/ AddNodes
    \/ ComparePair
    \/ ReturnGraph
    \/ PrintGraphStats
    \/ PrintDegreeCentrality
    \/ PrintClusters
    \/ SaveClustersToFile

Spec == Init /\ [][Next]_vars

-----------------------------------------------------------------------------
(* The analyses on a graph handed in directly *)

InitGraph ==
    /\ pc = "print_graph_stats"
    /\ \E n \in 0..Len(GraphNames) :
          /\ nodes = prefix(GraphNames, n)
          /\ edges \in SeqsUpTo(GraphEdges(n), MaxEdges)
    /\ raw_data = Empty /\ threshold = F(0)
    /\ all_years = Empty /\ aligned = Empty /\ smoothed = Empty
    /\ processed = Empty
    /\ order = Empty
    /\ bi = 0 /\ bj = 0 /\ sim_calls = Empty
    /\ stats = NoStats /\ centrality = NoCentrality
    /\ printed = NoClusters /\ report = NoClusters
    /\ values = Empty /\ window = 0 /\ prev_values = Empty

NextGraph ==
    \/ PrintGraphStats
    \/ PrintDegreeCentrality
    \/ PrintClusters
    \/ SaveClustersToFile

SpecGraph == InitGraph /\ [][NextGraph]_vars

-----------------------------------------------------------------------------
(* smooth on its own *)

InitSmooth ==
    /\ pc = "smooth"
    /\ values \in SeqsUpTo(SmoothValues, MaxLen)
    /\ window \in 0..MaxWindow
    /\ prev_values = Empty
    /\ raw_data = Empty /\ threshold = F(0)
    /\ all_years = Empty /\ aligned = Empty /\ smoothed = Empty
    /\ processed = Empty
    /\ order = Empty /\ nodes = Empty /\ edges = Empty
    /\ bi = 0 /\ bj = 0 /\ sim_calls = Empty
    /\ stats = NoStats /\ centrality = NoCentrality
    /\ printed = NoClusters /\ report = NoClusters

\* smooth(&mut values, window), lines 13-22
Smooth ==
    /\ pc = "smooth"
    /\ prev_values' = values
    /\ values' = smooth(values, window)
    /\ pc' = "smoothed"
    /\ UNCHANGED <<raw_data, threshold, all_years, aligned, smoothed, processed,
                   order, nodes, edges, bi, bj, sim_calls, stats, centrality,
                   printed, report, window>>

NextSmooth == Smooth

SpecSmooth == InitSmooth /\ [][NextSmooth]_vars

-----------------------------------------------------------------------------
(* Properties *)

Range(f) == {f[k] : k \in DOMAIN f}

\* clean_data has returned
CleanDone == pc \notin {"clean_data", "clean_loop", "smooth", "smoothed"}

\* build_similarity_graph has returned
GraphBuilt ==
    pc \in {"print_graph_stats", "print_degree_centrality", "print_clusters",
            "save_clusters_to_file", "done"}

\* some edge joins the nodes named x and y, in either direction
Joined(x, y) ==
    \E k \in 1..Len(edges) :
        {nodes[edges[k].source], nodes[edges[k].target]} = {x, y}

Similarity(x, y) == cosine_similarity(processed[x], processed[y])

\* C1: the graph build_similarity_graph returns has exactly one node per
\* country key of the cleaned dataset, and two distinct countries are joined
\* by an edge iff their cosine similarity is strictly greater than the
\* threshold; a similarity equal to the threshold gives no edge.
C1_EdgeIffSimilarityExceeds ==
    GraphBuilt =>
        /\ Len(nodes) = Cardinality(DOMAIN processed)
        /\ Range(nodes) = DOMAIN processed
        /\ \A x, y \in DOMAIN processed :
              x # y =>
                 /\ Joined(x, y) <=> FGt(Similarity(x, y), signed_square(threshold))
                 /\ FEq(Similarity(x, y), signed_square(threshold)) => ~Joined(x, y)

\* C1 witness: a built graph of three countries with an edge and with a pair
\* whose similarity equals the threshold
C1_Witness ==
    /\ GraphBuilt
    /\ Len(nodes) = 3
    /\ Len(edges) > 0
    /\ \E x, y \in DOMAIN processed :
          /\ x # y
          /\ FEq(Similarity(x, y), signed_square(threshold))
          /\ ~Joined(x, y)

Calls(x, y) == Cardinality({k \in 1..Len(sim_calls) : sim_calls[k] = <<x, y>>})

\* C9: during build_similarity_graph, in whatever order the map is iterated,
\* cosine_similarity is never called for a country with itself and at most
\* once for an unordered pair; when the graph is returned it has been called
\* exactly once per unordered pair of distinct countries, N(N-1)/2 times in
\* all, and the graph has no self-loop and at most one edge between two
\* nodes.
C9_OneEvaluationPerPair ==
    /\ \A x, y \in Countries :
          /\ Calls(x, x) = 0
          /\ x # y => Calls(x, y) + Calls(y, x) <= 1
    /\ GraphBuilt =>
          /\ \A x, y \in DOMAIN processed :
                x # y => Calls(x, y) + Calls(y, x) = 1
          /\ 2 * Len(sim_calls) =
                Cardinality(DOMAIN processed) * (Cardinality(DOMAIN processed) - 1)
          /\ \A k \in 1..Len(edges) : edges[k].source # edges[k].target
          /\ \A k, j \in 1..Len(edges) :
                {edges[k].source, edges[k].target} = {edges[j].source, edges[j].target}
                   => k = j

\* C9 witness: a graph of three countries, built with the map iterated in an
\* order that is not the order of the names
C9_Witness ==
    /\ GraphBuilt
    /\ order = <<"Z", "X", "Y">>
    /\ Len(sim_calls) = 3
    /\ Len(edges) >= 2

AllYearsSet == UNION {years_of(raw_data[c]) : c \in DOMAIN raw_data}

\* C6: clean_data returns one entry per input country (none dropped, with
\* one sample or with none), every vector is as long as the number of
\* distinct years over all countries, and slot i of a country's vector stands
\* for the i-th year of the strictly ascending union of years: it was filled
\* from the country's sample of that year, or was missing when it has none.
C6_AlignedOnYearUnion ==
    /\ CleanDone => DOMAIN processed = DOMAIN raw_data
    /\ pc # "clean_data" =>
          /\ Range(all_years) = AllYearsSet
          /\ \A i, j \in 1..Len(all_years) : i < j => all_years[i] < all_years[j]
    /\ \A c \in DOMAIN processed :
          /\ Len(processed[c]) = Cardinality(AllYearsSet)
          /\ Len(aligned[c]) = Cardinality(AllYearsSet)
          /\ \A i \in 1..Len(aligned[c]) :
                IF \E k \in 1..Len(raw_data[c]) : raw_data[c][k][1] = all_years[i]
                THEN \E k \in 1..Len(raw_data[c]) :
                        /\ raw_data[c][k][1] = all_years[i]
                        /\ aligned[c][i] = raw_data[c][k][2]
                ELSE is_nan(aligned[c][i])

\* C6 witness: a cleaned dataset of three countries over four years, one
\* country with no sample and one with a single sample
C6_Witness ==
    /\ CleanDone
    /\ Cardinality(DOMAIN processed) = 3
    /\ Len(all_years) = 4
    /\ \E c \in DOMAIN raw_data : Len(raw_data[c]) = 0
    /\ \E c \in DOMAIN raw_data : Len(raw_data[c]) = 1
    /\ \E c \in DOMAIN raw_data : Len(raw_data[c]) = 3

HasPositive(v) == \E i \in 1..Len(v) : FGt(v[i], F(0))

IsMaxAt(v, i) == \A j \in 1..Len(v) : FLe(v[j], v[i])

\* C7: when a country's series has a positive maximum after smoothing, every
\* value of its profile is at most 1 and the maximum has become exactly 1;
\* when it has none (all zero, all negative, empty) the values are those
\* after smoothing, unscaled.
C7_NormalizedToUnitMax ==
    \A c \in DOMAIN processed :
        IF HasPositive(smoothed[c])
        THEN /\ \A i \in 1..Len(processed[c]) : FLe(processed[c][i], F(1))
             /\ \E i \in 1..Len(processed[c]) :
                   IsMaxAt(smoothed[c], i) /\ processed[c][i] = F(1)
        ELSE processed[c] = smoothed[c]

\* C7 witness: a cleaned dataset with a scaled country, an all-negative one
\* and an all-zero one
C7_Witness ==
    /\ CleanDone
    /\ \E c \in DOMAIN processed :
          /\ HasPositive(smoothed[c])
          /\ \E i \in 1..Len(processed[c]) : FLt(processed[c][i], F(1))
          /\ processed[c] # smoothed[c]
    /\ \E c \in DOMAIN processed :
          /\ Len(processed[c]) > 0
          /\ \A i \in 1..Len(processed[c]) : FLt(processed[c][i], F(0))
    /\ \E c \in DOMAIN processed :
          /\ Len(processed[c]) > 0
          /\ \A i \in 1..Len(processed[c]) : processed[c][i] = F(0)

\* the 0-based positions max(0, i-w) .. min(len-1, i+w) of the window at i
WindowPositions(len, i, w) ==
    {j \in 0..(len - 1) : j >= i - w /\ j <= i + w}

\* the sum of v over a set of 0-based positions
RECURSIVE SumOver(_, _)
SumOver(v, P) ==
    IF P = {} THEN F(0)
    ELSE LET j == CHOOSE x \in P : TRUE
         IN  FAdd(v[j + 1], SumOver(v, P \ {j}))

\* C8: smooth(v, w) leaves the length unchanged and sets every position i to
\* the mean of the values v had before the call at max(0, i-w) ..
\* min(len-1, i+w), divided by the number of positions that exist; no value
\* smoothed in the same call is read.
C8_SmoothIsWindowMean ==
    pc = "smoothed" =>
        /\ Len(values) = Len(prev_values)
        /\ \A i \in 0..(Len(prev_values) - 1) :
              LET P == WindowPositions(Len(prev_values), i, window)
              IN  /\ Cardinality(P) >= 1
                  /\ FMul(values[i + 1], F(Cardinality(P))) = SumOver(prev_values, P)

\* C8 witness: a vector of at least three values smoothed with half-window 1
\* into a different vector
C8_Witness ==
    /\ pc = "smoothed"
    /\ window = 1
    /\ Len(prev_values) >= 3
    /\ values # prev_values
    /\ values[1] # values[2]

\* the nodes reachable from the node set S over the edges, either way
RECURSIVE Reach(_)
Reach(S) ==
    LET T == S \cup {edges[k].target : k \in {j \in 1..Len(edges) : edges[j].source \in S}}
                \cup {edges[k].source : k \in {j \in 1..Len(edges) : edges[j].target \in S}}
    IN  IF T = S THEN S ELSE Reach(T)

SameGroup(clusters, x, y) ==
    \E r \in DOMAIN clusters : x \in Range(clusters[r]) /\ y \in Range(clusters[r])

IsPartitionByPaths(clusters) ==
    /\ \A a, b \in 1..Len(nodes) :
          SameGroup(clusters, nodes[a], nodes[b]) <=> b \in Reach({a})
    /\ \A r \in DOMAIN clusters :
          /\ Len(clusters[r]) > 0
          /\ Cardinality(Range(clusters[r])) = Len(clusters[r])
    /\ \A r, q \in DOMAIN clusters :
          r # q => Range(clusters[r]) \cap Range(clusters[q]) = {}
    /\ UNION {Range(clusters[r]) : r \in DOMAIN clusters} = Range(nodes)

\* C2: once print_clusters and save_clusters_to_file have unioned every edge,
\* in whatever order the graph holds them, two nodes are grouped under the
\* same root iff a path of edges joins them, and the clusters are non-empty,
\* pairwise disjoint and cover exactly the node set.
C2_ClustersAreComponents ==
    /\ pc \in {"save_clusters_to_file", "done"} => IsPartitionByPaths(printed.clusters)
    /\ pc = "done" => IsPartitionByPaths(report.clusters)

\* C2 witness: five nodes, two of them in one cluster through a path and not
\* through an edge of their own
C2_Witness ==
    /\ pc = "done"
    /\ Len(nodes) = 5
    /\ Len(edges) = 2
    /\ \E a, b \in 1..Len(nodes) :
          /\ a # b
          /\ SameGroup(report.clusters, nodes[a], nodes[b])
          /\ \A k \in 1..Len(edges) : {edges[k].source, edges[k].target} # {a, b}

HeaderPositions(lines) == {k \in 1..Len(lines) : lines[k].kind = "header"}

\* the member counts of the headers of a report, in order
RECURSIVE HeaderCounts(_, _)
HeaderCounts(lines, n) ==
    IF n = 0 THEN <<>>
    ELSE IF lines[n].kind = "header"
         THEN Append(HeaderCounts(lines, n - 1), lines[n].count)
         ELSE HeaderCounts(lines, n - 1)

NonIncreasing(s) == \A i, j \in 1..Len(s) : i < j => s[i] >= s[j]

\* the graph with the edges A-B and C-D and the lone node E
IsTwoPairsAndOne ==
    /\ nodes = GraphNames
    /\ {{edges[k].source, edges[k].target} : k \in 1..Len(edges)} = {{1, 2}, {3, 4}}

\* C5: the report of save_clusters_to_file and the list of print_clusters
\* give the clusters in non-increasing order of size; the i-th header states
\* rank i and the member count, and is followed by exactly that many member
\* lines and a blank line; for the edges A-B, C-D and the lone node E there
\* are three clusters of sizes 2, 2, 1 in that order.
C5_ReportOrderedBySize ==
    /\ pc \in {"save_clusters_to_file", "done"} =>
          /\ NonIncreasing([i \in 1..Len(printed.lines) |-> printed.lines[i].count])
          /\ \A i \in 1..Len(printed.lines) :
                /\ printed.lines[i].rank = i
                /\ printed.lines[i].count = Len(printed.list[i])
    /\ pc = "done" =>
          LET lines == report.lines
              counts == HeaderCounts(lines, Len(lines))
          IN  /\ NonIncreasing(counts)
              /\ Len(counts) = Cardinality(DOMAIN report.clusters)
              /\ Len(lines) > 0 => lines[1].kind = "header"
              /\ \A k \in HeaderPositions(lines) :
                    /\ lines[k].rank = Cardinality({j \in HeaderPositions(lines) : j <= k})
                    /\ lines[k].count >= 1
                    /\ k + lines[k].count + 1 <= Len(lines)
                    /\ \A j \in (k + 1)..(k + lines[k].count) : lines[j].kind = "member"
                    /\ lines[k + lines[k].count + 1].kind = "blank"
                    /\ {lines[j].name : j \in (k + 1)..(k + lines[k].count)}
                          \in {Range(report.clusters[r]) : r \in DOMAIN report.clusters}
              /\ \A k \in 1..Len(lines) :
                    lines[k].kind = "blank" /\ k < Len(lines) => lines[k + 1].kind = "header"
              /\ IsTwoPairsAndOne => counts = <<2, 2, 1>>

\* C5 witness: the report of the graph with the edges A-B and C-D and the
\* lone node E
C5_Witness ==
    /\ pc = "done"
    /\ IsTwoPairsAndOne
    /\ HeaderCounts(report.lines, Len(report.lines)) = <<2, 2, 1>>
    /\ Len(report.lines) = 11

\* C10: the component count print_graph_stats reports for a built graph is
\* the number of clusters print_clusters lists and save_clusters_to_file
\* writes, and the two listings have the same cluster sizes rank by rank.
C10_ComponentCountIsClusterCount ==
    pc = "done" =>
        LET written == HeaderCounts(report.lines, Len(report.lines))
            listed == [i \in 1..Len(printed.lines) |-> printed.lines[i].count]
        IN  /\ stats.components = Len(listed)
            /\ stats.components = Len(written)
            /\ listed = written

\* C10 witness: a built graph of three countries in two clusters, listed by
\* print_clusters and written by save_clusters_to_file
C10_Witness ==
    /\ pc = "done"
    /\ Len(order) = 3
    /\ stats.components = 2
    /\ Len(edges) = 1
    /\ Len(report.lines) = 7

CentralityDone == pc \in {"print_clusters", "save_clusters_to_file", "done"}

\* C3: the degree print_degree_centrality gives a node of a built graph is
\* the number of edges incident to it, whichever end of the edge it is, and
\* the ranking is in descending order of that degree.
C3_DegreeIsIncidentEdgeCount ==
    CentralityDone =>
        /\ Len(centrality.ranking) = Len(nodes)
        /\ \A i \in 1..Len(centrality.ranking) :
              centrality.ranking[i].degree =
                 incident_edge_count(edges, node_index(centrality.ranking[i].name))
        /\ NonIncreasing([i \in 1..Len(centrality.ranking) |->
                             centrality.ranking[i].degree])

\* the dataset of the end-to-end scenario, with main's threshold
IsScenario ==
    /\ raw_data = [c \in Countries |->
                      IF c = "Z"
                      THEN << <<2000, F(5)>>, <<2001, F(5)>>, <<2002, F(5)>> >>
                      ELSE << <<2000, F(10)>>, <<2001, F(20)>>, <<2002, F(30)>> >>]
    /\ threshold = MainThreshold

\* C4, as stated: in the end-to-end scenario the graph has three nodes, X and
\* Y are joined by an edge and Z has no incident edge.
C4_ScenarioZIsolated ==
    (IsScenario /\ GraphBuilt) =>
        /\ Len(nodes) = 3
        /\ Joined("X", "Y")
        /\ incident_edge_count(edges, node_index("Z")) = 0

\* C4, amended: in the end-to-end scenario the graph has three nodes, X and Y
\* are joined by an edge, and Z is joined to both X and Y (its profile
\* (1, 1, 1) has similarity 2.4 / sqrt(6) > 0.975 with (0.6, 0.8, 1)), so the
\* three countries form a single cluster.
C4_ScenarioOneCluster ==
    (IsScenario /\ GraphBuilt) =>
        /\ Len(nodes) = 3
        /\ Joined("X", "Y")
        /\ Joined("X", "Z")
        /\ Joined("Y", "Z")
        /\ processed["X"] = <<Rat(3, 5), Rat(4, 5), F(1)>>
        /\ processed["Z"] = <<F(1), F(1), F(1)>>
        /\ pc = "done" => HeaderCounts(report.lines, Len(report.lines)) = <<3>>

\* C4 witness: the end-to-end scenario run to its end
C4_Witness ==
    /\ IsScenario
    /\ pc = "done"
    /\ Len(edges) = 3

====
